---- MODULE Spec2Model ----
(***************************************************************************)
(* Model of the research workflow orchestrator                             *)
(* (backend/graph/research_graph.py: SimpleOrchestrator) together with the *)
(* five agents it dispatches to (backend/agents/*.py).                     *)
(*                                                                         *)
(* The ResearchState object is the record `state`; the locals of the       *)
(* generator SimpleOrchestrator.stream are the variables iteration,        *)
(* max_iterations, prev_completed_tasks, stalled_iterations, next_agent    *)
(* and the position pc.  Five specifications are defined:                  *)
(*   Spec        a run of stream from a bounded family of initial states   *)
(*   SpecFresh   the runs of Spec that start with no task and nothing      *)
(*               completed                                                 *)
(*   SpecService a run of ResearchService.run_research, which consumes the *)
(*               snapshots of stream                                       *)
(*   SpecSched   the scheduler and the report handler's task choice        *)
(*               applied to every research state of a bounded family       *)
(*   SpecMetrics the calls of a ResearchMetrics object                     *)
(***************************************************************************)
EXTENDS Naturals, Integers, Sequences, FiniteSets, TLC

VARIABLES
    state,                 \* the ResearchState object
    pc,                    \* position of the generator / of the pure check
    iteration,             \* stream: iteration
    max_iterations,        \* stream: config["max_iterations"]
    prev_completed_tasks,  \* stream: prev_completed_tasks (a set)
    stalled_iterations,    \* stream: stalled_iterations
    next_agent,            \* stream: next_agent ("None" for None)
    yields,                \* history: number of snapshots yielded so far
    iter_yields,           \* history: snapshots yielded by the current iteration
    iter_completed,        \* history: set(completed_tasks) when the iteration began
    unchanged_iters,       \* history: consecutive finished iterations that left
                           \*          the completed set unchanged
    end_reason,            \* history: why the generator stopped
    rejected,              \* history: an approval request of the orchestrator
                           \*          was answered with a rejection
    picked,                \* SpecSched: task picked by the report handler (0: none)
    it,                    \* history of the current iteration: the answers at
                           \*          the two gates, whether the handler was
                           \*          invoked, the ids it added to completed_tasks
    snap,                  \* history: state.messages at the latest yield
    svc,                   \* run_research: "none" when stream is run on its own,
                           \*          else "running", "finished" or "failed"
    resume,                \* run_research: where stream resumes after the
                           \*          consumer has processed the snapshot
    metrics,               \* the ResearchMetrics object
    calls,                 \* history: the calls made on the ResearchMetrics object
    route,                 \* the value task_router returned ("unset" before)
    merged                 \* the arguments and the result of a reducer call

vars == <<state, pc, iteration, max_iterations, prev_completed_tasks,
          stalled_iterations, next_agent, yields, iter_yields, iter_completed,
          unchanged_iters, end_reason, rejected, picked, it, snap, svc, resume,
          metrics, calls, route, merged>>

----------------------------------------------------------------------------
(* Bounds *)

\* largest max_iterations a run is started with
MaxIterations == 6
\* number of sources one retrieval can add
MaxNewSources == 1
\* longest task list of the states the scheduler is applied to
MaxTasks == 2
\* number of calls made on a ResearchMetrics object
MaxCalls == 4

----------------------------------------------------------------------------
(* Data *)

\* the research question of the run (an opaque, non-empty text)
Question == "Q"

\* an id no task of an initial task list carries (a dangling dependency)
DanglingId == 9

Range(s) == {s[i] : i \in 1..Len(s)}

Max(S) == IF S = {} THEN 0 ELSE CHOOSE m \in S : \A x \in S : x <= m

\* Task(id, type, description, depends_on); priority, assigned_to and
\* completed are never read by the orchestrator or the agents
Task(id, type, description, deps) ==
    [id |-> id, type |-> type, description |-> description, depends_on |-> deps]

\* Message(role, content, type, agent): the model keeps content and type
Msg(content, type) == [content |-> content, type |-> type]

\* Optional[List]: None, or a list
None == <<>>
Some(list) == <<list>>

\* history: no reducer has been called
NoMerge == [existing |-> None, new |-> <<>>, result |-> <<>>, applied |-> FALSE]

\* Message.human_intervention(content)
HumanIntervention(content) == Msg(content, "human_intervention")

\* ResearchState(research_id, research_question, status="planning");
\* metadata is not a field of ResearchState: NoMetadata until an agent's
\* assignment of state.metadata is accepted
NoMetadata == [agent |-> "unset", tools_used |-> <<>>]

FreshState ==
    [research_question |-> Question,
     sub_questions |-> 0,
     messages |-> <<>>,
     sources |-> <<>>,
     extracted_information |-> {},
     evaluations |-> "empty",
     tasks |-> <<>>,
     completed_tasks |-> <<>>,
     summary |-> <<>>,
     report |-> <<>>,
     report_draft |-> "None",
     evaluation_summary |-> "None",
     metadata |-> NoMetadata,
     status |-> "planning"]

\* a uuid4: an id different from every id the state mentions
AllIds(s) ==
    {s.tasks[i].id : i \in 1..Len(s.tasks)}
        \cup UNION {s.tasks[i].depends_on : i \in 1..Len(s.tasks)}
        \cup Range(s.completed_tasks)

FreshId(s, k) == Max(AllIds(s)) + k

Append1(s, field, x) == [s EXCEPT ![field] = Append(@, x)]

\* a log that keeps the latest message only
AddMessage_overwrite(s, m) == [s EXCEPT !.messages = <<m>>]

AddMessage(s, m) == [s EXCEPT !.messages = Append(@, m)]

Pending(s, type) ==
    {i \in 1..Len(s.tasks) :
        s.tasks[i].type = type /\ s.tasks[i].id \notin Range(s.completed_tasks)}

DepsDone(s, i) == s.tasks[i].depends_on \subseteq Range(s.completed_tasks)

----------------------------------------------------------------------------
(* Scheduler: SimpleOrchestrator._determine_next_agent *)

\* the scheduler without its terminal check
determine_next_agent_no_terminal(s) ==
    IF Pending(s, "retrieve") # {} THEN "information_retrieval"
    ELSE IF Pending(s, "analyze") # {} THEN "document_analysis"
    ELSE IF Pending(s, "evaluate") # {} THEN "critical_evaluation"
    ELSE IF \E i \in Pending(s, "report") : DepsDone(s, i) THEN "report_generation"
    ELSE "research_manager"

\* the scheduler testing the analyze tasks before the retrieve tasks
determine_next_agent_analyze_first(s) ==
    IF s.status = "complete" THEN "None"
    ELSE IF Pending(s, "analyze") # {} THEN "document_analysis"
    ELSE IF Pending(s, "retrieve") # {} THEN "information_retrieval"
    ELSE IF Pending(s, "evaluate") # {} THEN "critical_evaluation"
    ELSE IF \E i \in Pending(s, "report") : DepsDone(s, i) THEN "report_generation"
    ELSE "research_manager"

\* the scheduler selecting the report stage without the dependency check
determine_next_agent_no_deps(s) ==
    IF s.status = "complete" THEN "None"
    ELSE IF Pending(s, "retrieve") # {} THEN "information_retrieval"
    ELSE IF Pending(s, "analyze") # {} THEN "document_analysis"
    ELSE IF Pending(s, "evaluate") # {} THEN "critical_evaluation"
    ELSE IF Pending(s, "report") # {} THEN "report_generation"
    ELSE "research_manager"

\* the scheduler without the fallback to the manager
determine_next_agent_no_fallback(s) ==
    IF s.status = "complete" THEN "None"
    ELSE IF Pending(s, "retrieve") # {} THEN "information_retrieval"
    ELSE IF Pending(s, "analyze") # {} THEN "document_analysis"
    ELSE IF Pending(s, "evaluate") # {} THEN "critical_evaluation"
    ELSE IF \E i \in Pending(s, "report") : DepsDone(s, i) THEN "report_generation"
    ELSE "None"

determine_next_agent(s) ==
    IF s.status = "complete" THEN "None"
    ELSE IF Pending(s, "retrieve") # {} THEN "information_retrieval"
    ELSE IF Pending(s, "analyze") # {} THEN "document_analysis"
    ELSE IF Pending(s, "evaluate") # {} THEN "critical_evaluation"
    ELSE IF \E i \in Pending(s, "report") : DepsDone(s, i) THEN "report_generation"
    ELSE "research_manager"

\* the router selecting the report stage without the dependency check
task_router_no_deps(s) ==
    IF s.status = "complete" THEN "complete"
    ELSE IF Pending(s, "retrieve") # {} THEN "information_retrieval"
    ELSE IF Pending(s, "analyze") # {} THEN "document_analysis"
    ELSE IF Pending(s, "evaluate") # {} THEN "critical_evaluation"
    ELSE IF Pending(s, "report") # {} THEN "report_generation"
    ELSE "research_manager"

\* routers.task_router
task_router(s) ==
    IF s.status = "complete" THEN "complete"
    ELSE IF \E i \in 1..Len(s.tasks) :
               s.tasks[i].type = "retrieve" /\ s.tasks[i].id \notin Range(s.completed_tasks)
    THEN "information_retrieval"
    ELSE IF \E i \in 1..Len(s.tasks) :
               s.tasks[i].type = "analyze" /\ s.tasks[i].id \notin Range(s.completed_tasks)
    THEN "document_analysis"
    ELSE IF \E i \in 1..Len(s.tasks) :
               s.tasks[i].type = "evaluate" /\ s.tasks[i].id \notin Range(s.completed_tasks)
    THEN "critical_evaluation"
    ELSE IF /\ \E i \in 1..Len(s.tasks) :
                  s.tasks[i].type = "report" /\ s.tasks[i].id \notin Range(s.completed_tasks)
            /\ \E i \in 1..Len(s.tasks) :
                  /\ s.tasks[i].type = "report"
                  /\ s.tasks[i].id \notin Range(s.completed_tasks)
                  /\ \A dep_id \in s.tasks[i].depends_on :
                        dep_id \in Range(s.completed_tasks)
    THEN "report_generation"
    ELSE "research_manager"

----------------------------------------------------------------------------
(* Approval gate *)

\* the keys of the handler registry create_research_graph passes to the
\* orchestrator
AgentRegistry ==
    {"research_manager", "information_retrieval", "document_analysis",
     "critical_evaluation", "report_generation"}

CRITICAL_AGENTS == {"report_generation"}
CRITICAL_STATES == {"generate_final_report", "publish_results"}
RESULT_APPROVAL_AGENTS == {"critical_evaluation", "report_generation"}

\* str.lower() of a task description; descriptions are kept in lower case
\* apart from the one mixed-case spelling of a high-risk phrase
Lower(d) == IF d = "Publish_Results" THEN "publish_results" ELSE d

\* the before gate asking for the critical agents only
requires_approval_critical_only(agent_name, s) == agent_name \in CRITICAL_AGENTS

requires_approval(agent_name, s) ==
    \/ agent_name \in CRITICAL_AGENTS
    \/ \E i \in 1..Len(s.tasks) :
          /\ s.tasks[i].id \notin Range(s.completed_tasks)
          /\ Lower(s.tasks[i].description) \in CRITICAL_STATES

\* the after gate asking for the report only
requires_result_approval_report_only(agent_name, s) == agent_name = "report_generation"

requires_result_approval(agent_name, s) == agent_name \in RESULT_APPROVAL_AGENTS

\* the loop of _handle_rejection over the report tasks: each report task
\* not yet in completed_tasks is appended and a note is logged
RECURSIVE SkipReports(_, _)
SkipReports(s, i) ==
    IF i > Len(s.tasks) THEN s
    ELSE IF s.tasks[i].type = "report"
            /\ s.tasks[i].id \notin Range(s.completed_tasks)
         THEN SkipReports(
                AddMessage(Append1(s, "completed_tasks", s.tasks[i].id),
                           HumanIntervention("report_skipped")),
                i + 1)
         ELSE SkipReports(s, i + 1)

\* a rejection handler that skips the pending tasks of any rejected stage
handle_rejection_skips_stage(agent_name, s) ==
    LET s1 == AddMessage(s, HumanIntervention("action_rejected"))
        type == IF agent_name = "information_retrieval" THEN "retrieve"
                ELSE IF agent_name = "document_analysis" THEN "analyze"
                ELSE IF agent_name = "critical_evaluation" THEN "evaluate"
                ELSE "report"
        skipped == SelectSeq(s.tasks, LAMBDA t : /\ t.type = type
                                                 /\ t.id \notin Range(s.completed_tasks))
    IN [s1 EXCEPT !.completed_tasks = @ \o [i \in 1..Len(skipped) |-> skipped[i].id]]

\* a rejection handler that appends the id of every report task, completed
\* or not
handle_rejection_appends_all(agent_name, s) ==
    LET s1 == AddMessage(s, HumanIntervention("action_rejected"))
        reports == SelectSeq(s.tasks, LAMBDA t : t.type = "report")
    IN IF agent_name = "report_generation"
       THEN [s1 EXCEPT !.completed_tasks = @ \o [i \in 1..Len(reports) |-> reports[i].id]]
       ELSE s1

\* the rejection handler leaving the report tasks pending
handle_rejection_no_skip(agent_name, s) ==
    AddMessage(s, HumanIntervention("action_rejected"))

handle_rejection(agent_name, s) ==
    LET s1 == AddMessage(s, HumanIntervention("action_rejected"))
    IN IF agent_name = "report_generation" THEN SkipReports(s1, 1) ELSE s1

\* list.remove(x): drops the first occurrence of x
RemoveFirst(seq, x) ==
    LET k == CHOOSE j \in 1..Len(seq) :
                 seq[j] = x /\ \A h \in 1..(j - 1) : seq[h] # x
    IN SubSeq(seq, 1, k - 1) \o SubSeq(seq, k + 1, Len(seq))

\* a rollback that drops the task itself and keeps its id in completed_tasks
Uncomplete_drops_task(s, task_type, i) ==
    [s EXCEPT !.tasks = SelectSeq(@, LAMBDA t : ~(t.type = task_type
                                                   /\ t.id \in Range(s.completed_tasks)))]

\* a rollback that stops at the first completed task of the type
Uncomplete_first_only(s, task_type, i) ==
    LET hits == {j \in 1..Len(s.tasks) : /\ s.tasks[j].type = task_type
                                         /\ s.tasks[j].id \in Range(s.completed_tasks)}
    IN IF hits = {} THEN s
       ELSE [s EXCEPT !.completed_tasks =
                         RemoveFirst(@, s.tasks[CHOOSE j \in hits : \A h \in hits : j <= h].id)]

\* the loop of _handle_result_rejection over state.tasks
RECURSIVE Uncomplete(_, _, _)
Uncomplete(s, task_type, i) ==
    IF i > Len(s.tasks) THEN s
    ELSE IF s.tasks[i].type = task_type
            /\ s.tasks[i].id \in Range(s.completed_tasks)
         THEN Uncomplete(
                [s EXCEPT !.completed_tasks = RemoveFirst(@, s.tasks[i].id)],
                task_type, i + 1)
         ELSE Uncomplete(s, task_type, i + 1)

\* a rollback that withdraws the final report and the status as well
result_rejection_reset_clears_report(agent_name, s) ==
    LET s1 == AddMessage(s, HumanIntervention("results_rejected"))
    IN IF agent_name = "critical_evaluation"
       THEN [s1 EXCEPT !.evaluation_summary = "None"]
       ELSE IF agent_name = "report_generation"
       THEN [s1 EXCEPT !.report_draft = "None", !.report = <<>>,
                       !.status = "researching"]
       ELSE s1

\* _handle_result_rejection up to, and not including, the assignment of
\* state.evaluation_results (an attribute ResearchState does not declare)
result_rejection_reset(agent_name, s) ==
    LET s1 == AddMessage(s, HumanIntervention("results_rejected"))
    IN IF agent_name = "critical_evaluation"
       THEN [s1 EXCEPT !.evaluation_summary = "None"]
       ELSE IF agent_name = "report_generation"
       THEN [s1 EXCEPT !.report_draft = "None"]
       ELSE s1

handle_result_rejection(agent_name, s) ==
    LET s1 == result_rejection_reset(agent_name, s)
    IN IF agent_name = "critical_evaluation" THEN Uncomplete(s1, "evaluate", 1)
       ELSE IF agent_name = "report_generation" THEN Uncomplete(s1, "report", 1)
       ELSE s1

----------------------------------------------------------------------------
(* Agents (the handler registry of create_research_graph).  Each agent is  *)
(* an operator of the state and of an outcome o of what the agent cannot   *)
(* control: the LLM's reply, the search result, the answers to the agent's *)
(* own approval requests.  The result is [st, raised]: the state object as *)
(* the agent left it and whether the agent raised instead of returning.    *)

Ret(s) == [st |-> s, raised |-> FALSE]
Raise(s) == [st |-> s, raised |-> TRUE]

SystemMsg(content) == Msg(content, "agent")

\* an LLM reply: some text, or the empty string
LlmText == <<"llm_text">>
LlmReplies == {LlmText, <<>>}

\* task types the plan parser can produce for the sub-questions it found
PlanShapes == {<<>>, <<"other">>}

ManagerOutcomes ==
    [kind : {"llm_error", "parse_error", "no_sub_questions"}, types : {<<>>},
     reply : LlmReplies]
      \cup [kind : {"parsed"}, types : PlanShapes, reply : LlmReplies]

\* the tasks built from the parsed sub-questions, ids fresh
PlanTasks(s, types, description) ==
    [i \in 1..Len(types) |-> Task(FreshId(s, i), types[i], description, {})]

DefaultTypes == <<"retrieve", "analyze", "evaluate">>

\* the report task appended to a parsed plan: it depends on every other task
WithReportTask(s, ts) ==
    Append(ts, Task(FreshId(s, Len(ts) + 1), "report", "generate final research report",
                    {ts[i].id : i \in 1..Len(ts)}))

\* ResearchManagerAgent.create_research_plan
create_research_plan(s, o) ==
    IF o.kind = "llm_error"
    THEN AddMessage(s, SystemMsg("plan_error"))
    ELSE IF o.kind = "parse_error"
    THEN AddMessage(
           [s EXCEPT !.sub_questions = 3,
                     !.tasks = Append(PlanTasks(s, DefaultTypes, "default"),
                                      Task(FreshId(s, 4), "report",
                                           "generate final research report", {})),
                     !.status = "researching"],
           SystemMsg("default_plan_created"))
    ELSE LET ts == IF o.kind = "no_sub_questions"
                   THEN PlanTasks(s, DefaultTypes, "default")
                   ELSE PlanTasks(s, o.types, "task for")
             n == IF o.kind = "no_sub_questions" THEN 3
                  ELSE IF Len(o.types) = 0 THEN 1 ELSE Len(o.types)
         IN AddMessage(
              [s EXCEPT !.sub_questions = n,
                        !.tasks = WithReportTask(s, ts),
                        !.status = "researching"],
              SystemMsg("plan_created"))

\* ResearchManagerAgent.synthesize_report
synthesize_report(s, o) ==
    AddMessage([s EXCEPT !.report = o.reply, !.status = "complete"],
               SystemMsg("final_report_generated"))

AllTasksCompleted(s) ==
    \A i \in 1..Len(s.tasks) : s.tasks[i].id \in Range(s.completed_tasks)

\* a manager that plans at every call
research_manager_always_plans(s, o) == Ret(create_research_plan(s, o))

\* ResearchManagerAgent.process
research_manager(s, o) ==
    IF s.sub_questions = 0 THEN Ret(create_research_plan(s, o))
    ELSE IF s.status = "reporting" \/ AllTasksCompleted(s)
    THEN Ret(synthesize_report(s, o))
    ELSE Ret(AddMessage(s, SystemMsg("research_in_progress")))

First(S) == CHOOSE i \in S : \A j \in S : i <= j

\* the sources one retrieval appends: the search results kept, or the one
\* default source when the search fails or returns nothing
RECURSIVE Rep(_, _)
Rep(x, n) == IF n = 0 THEN <<>> ELSE Append(Rep(x, n - 1), x)

RetrievalOutcomes == {<<"default">>} \cup {Rep("web", n) : n \in 1..MaxNewSources}

\* InformationRetrievalAgent.process
information_retrieval(s, o) ==
    IF Pending(s, "retrieve") = {}
    THEN Ret(AddMessage(s, SystemMsg("no_pending_retrieval")))
    ELSE LET task == s.tasks[First(Pending(s, "retrieve"))]
         IN Ret(AddMessage(
                  [s EXCEPT !.sources = @ \o o,
                            !.completed_tasks = Append(@, task.id)],
                  SystemMsg("retrieved_sources")))

\* DocumentAnalysisAgent.process; extracted_information is kept as the set
\* of its source_id values
document_analysis(s) ==
    IF Pending(s, "analyze") = {}
    THEN Ret(AddMessage(s, SystemMsg("no_pending_analysis")))
    ELSE IF Len(s.sources) = 0
    THEN Ret(AddMessage(s, SystemMsg("no_sources_available")))
    ELSE LET task == s.tasks[First(Pending(s, "analyze"))]
         IN Ret(AddMessage(
                  [s EXCEPT !.extracted_information = @ \cup (0..(Len(s.sources) - 1)),
                            !.completed_tasks = Append(@, task.id)],
                  SystemMsg("analyzed_sources")))

\* CriticalEvaluationAgent._is_controversial: evaluate_research returns no
\* 'overall_score', so evaluation_result.get('overall_score', 0) < 5 holds
is_controversial == TRUE

EvaluationOutcomes == [approved : BOOLEAN, sufficient : BOOLEAN, raises : BOOLEAN]

\* CriticalEvaluationAgent.process; o.raises: the assignment of
\* state.metadata, an attribute ResearchState does not declare, is refused
critical_evaluation(s, o) ==
    IF Pending(s, "evaluate") = {}
    THEN Ret(AddMessage(s, SystemMsg("no_pending_evaluation")))
    ELSE IF s.extracted_information = {}
    THEN Ret(AddMessage(s, SystemMsg("no_information_available")))
    ELSE LET task == s.tasks[First(Pending(s, "evaluate"))]
             s1 == [s EXCEPT !.evaluations = "evaluated"]
         IN IF is_controversial /\ ~o.approved
            THEN Ret(AddMessage([s1 EXCEPT !.evaluations = "empty"],
                                HumanIntervention("evaluation_rejected")))
            ELSE LET s2 == Append1(s1, "completed_tasks", task.id)
                 IN IF o.raises THEN Raise(s2)
                    ELSE Ret(AddMessage(
                               [s2 EXCEPT !.metadata =
                                              [agent |-> "CriticalEvaluationAgent",
                                               tools_used |-> <<"credibility_check",
                                                                "bias_detection">>],
                                          !.status = IF o.sufficient THEN "reporting"
                                                     ELSE @],
                               SystemMsg("evaluation_completed")))

\* ReportGenerationAgent._create_fallback_report
create_fallback_report(s) ==
    <<"# Research Report: ", s.research_question, "agent_fallback_body">>

ReportOutcomes ==
    [start_approved : BOOLEAN, draft_approved : BOOLEAN,
     draft : LlmReplies \cup {<<"fallback">>}, summary : LlmReplies \cup {<<"fallback">>},
     raises : BOOLEAN]

\* ReportGenerationAgent.process
report_generation(s, o) ==
    IF Pending(s, "report") = {}
    THEN Ret(AddMessage(s, SystemMsg("no_pending_report")))
    ELSE LET task == s.tasks[First(Pending(s, "report"))]
         IN IF ~(task.depends_on \subseteq Range(s.completed_tasks))
            THEN Ret(AddMessage(s, SystemMsg("cannot_generate_report")))
            ELSE IF ~o.start_approved
            THEN Ret(AddMessage(s, HumanIntervention("report_rejected_before_start")))
            ELSE LET draft == IF o.draft = <<"fallback">> THEN create_fallback_report(s)
                              ELSE o.draft
                     s1 == [s EXCEPT !.report_draft = draft]
                 IN IF ~o.draft_approved
                    THEN Ret([AddMessage(s1, HumanIntervention("report_draft_rejected"))
                                EXCEPT !.report_draft = "None"])
                    ELSE LET s2 == [s1 EXCEPT
                                      !.summary = IF o.summary = <<"fallback">>
                                                  THEN <<"This research investigated ",
                                                         s.research_question>>
                                                  ELSE o.summary,
                                      !.report = draft,
                                      !.completed_tasks = Append(@, task.id),
                                      !.status = "complete"]
                         IN IF o.raises THEN Raise(s2)
                            ELSE Ret(AddMessage(
                                       [s2 EXCEPT !.metadata =
                                          [agent |-> "ReportGenerationAgent",
                                           tools_used |->
                                              IF o.draft = <<"fallback">>
                                              THEN <<"format_citations">>
                                              ELSE <<"format_citations", "draft_report">>]],
                                       SystemMsg("report_generated")))

\* the task the report handler works on, 0 if it generates nothing
report_task_picked(s) ==
    IF Pending(s, "report") = {} THEN 0
    ELSE LET i == First(Pending(s, "report"))
         IN IF s.tasks[i].depends_on \subseteq Range(s.completed_tasks) THEN i ELSE 0

----------------------------------------------------------------------------
(* Stall detector and recovery controller (the tail of an iteration of     *)
(* SimpleOrchestrator.stream)                                              *)

\* stalled_iterations >= 3: attempt recovery
RecoveryThreshold == 3
\* stalled_iterations >= 5: abort
AbortThreshold == 5

\* the default tasks created when the run is stuck with no task list
default_plan(s) ==
    [s EXCEPT !.sub_questions = IF @ = 0 THEN 1 ELSE @,
              !.tasks = <<Task(FreshId(s, 1), "retrieve", "find information about", {}),
                          Task(FreshId(s, 2), "analyze", "analyze information about", {}),
                          Task(FreshId(s, 3), "evaluate", "evaluate information about", {}),
                          Task(FreshId(s, 4), "report", "generate final research report", {})>>,
              !.status = "researching"]

MockSources == <<"mock_general", "mock_studies">>

\* the if / elif under `stalled_iterations += 1`: the elif belongs to
\* `if stalled_iterations >= 3`, not to `if not state.tasks`
stall_recovery(s, stalled) ==
    IF stalled >= RecoveryThreshold
    THEN IF Len(s.tasks) = 0 THEN default_plan(s) ELSE s
    ELSE IF Len(s.sources) = 0
            /\ \E i \in 1..Len(s.tasks) : s.tasks[i].type = "retrieve"
         THEN [s EXCEPT !.sources = MockSources]
         ELSE s

\* stalled_iterations when the block `if current == prev` is left: the
\* reset `stalled_iterations = 0` is at the block's own indentation, so it
\* runs in every stalled iteration
stalled_after_check(stalled, same) == IF same THEN 0 ELSE stalled

\* the fallback report, summary, status and message of a forced termination
fallback_termination(s) ==
    AddMessage(
      [s EXCEPT !.report = <<"# Research Report: ", s.research_question,
                             "stall_fallback_body">>,
                !.summary = <<"This research explored ", s.research_question>>,
                !.status = "complete"],
      Msg("completed_with_fallback_report", "agent"))

----------------------------------------------------------------------------
(* ResearchMetrics (backend/evaluation/metrics.py).  The two defaultdicts  *)
(* are functions whose domain is the set of keys touched so far;           *)
(* task_timings is never written.                                          *)

EmptyMap == [k \in {} |-> 0]

\* d[k] of a defaultdict: the default when k is not a key yet
Entry(d, k, default) == IF k \in DOMAIN d THEN d[k] ELSE default

Put(d, k, v) == [x \in DOMAIN d \cup {k} |-> IF x = k THEN v ELSE d[x]]

\* ResearchMetrics.__init__ and reset
FreshMetrics == [agent_performance |-> EmptyMap, tool_usage |-> EmptyMap]

\* a logger that counts every task as an error
log_agent_task_always_error(m, agent_name, success) ==
    LET e == Entry(m.agent_performance, agent_name, [tasks |-> 0, errors |-> 0])
    IN [m EXCEPT !.agent_performance =
                    Put(@, agent_name, [tasks |-> e.tasks + 1, errors |-> e.errors + 1])]

log_agent_task(m, agent_name, success) ==
    LET e == Entry(m.agent_performance, agent_name, [tasks |-> 0, errors |-> 0])
    IN [m EXCEPT !.agent_performance =
                    Put(@, agent_name,
                        [tasks |-> e.tasks + 1,
                         errors |-> IF success THEN e.errors ELSE e.errors + 1])]

log_tool_usage(m, tool_name) ==
    [m EXCEPT !.tool_usage = Put(@, tool_name, Entry(@, tool_name, 0) + 1)]

\* a reset that forgets the agents only
reset_agents_only(m) == [m EXCEPT !.agent_performance = EmptyMap]

reset(m) == FreshMetrics

generate_report(m) ==
    [agent_performance |-> m.agent_performance, tool_usage |-> m.tool_usage]

\* history: the calls made on the object
AgentCall(agent_name, success) ==
    [op |-> "log_agent_task", name |-> agent_name, success |-> success]
ToolCall(tool_name) == [op |-> "log_tool_usage", name |-> tool_name, success |-> TRUE]
OtherCall(op) == [op |-> op, name |-> "", success |-> TRUE]

\* `for tool_name in tools: self.metrics.log_tool_usage(tool_name)`
RECURSIVE LogTools(_, _)
LogTools(m, tools) ==
    IF tools = <<>> THEN m ELSE LogTools(log_tool_usage(m, Head(tools)), Tail(tools))

ToolCalls(tools) == [i \in 1..Len(tools) |-> ToolCall(tools[i])]

----------------------------------------------------------------------------
(* Initial states of a run.  start_research builds FreshState; stream      *)
(* itself accepts any ResearchState, so runs are also started from a       *)
(* family of partially completed states, among them task lists with a      *)
(* dangling or cyclic report dependency and with a high-risk description.  *)

ReportDesc == "generate final research report"

\* a state with the given tasks, completed_tasks, sources and status, whose
\* sub_questions and extracted_information are filled in accordingly
Started(ts, c, src, sq, st) ==
    [FreshState EXCEPT !.tasks = ts, !.completed_tasks = c, !.sources = src,
                       !.extracted_information = 0..(Len(src) - 1),
                       !.sub_questions = sq, !.status = st]

InitialStates ==
    {FreshState,
     [FreshState EXCEPT !.status = "complete"],
     \* a report task with a dangling dependency
     Started(<<Task(1, "report", ReportDesc, {DanglingId})>>,
             <<>>, <<>>, 1, "researching"),
     \* two report tasks that depend on each other
     Started(<<Task(1, "report", ReportDesc, {2}), Task(2, "report", ReportDesc, {1})>>,
             <<>>, <<>>, 1, "researching"),
     \* retrieval completed without any source
     Started(<<Task(1, "retrieve", "find information about", {}),
               Task(2, "analyze", "analyze information about", {})>>,
             <<1>>, <<>>, 1, "researching"),
     \* a pending task with a high-risk description
     Started(<<Task(1, "retrieve", "find information about", {}),
               Task(2, "analyze", "Publish_Results", {})>>,
             <<1>>, <<>>, 1, "researching"),
     \* the report left, its dependency completed
     Started(<<Task(1, "evaluate", "evaluate information about", {}),
               Task(2, "report", ReportDesc, {1})>>,
             <<1>>, <<"web">>, 1, "researching")}

\* history: nothing has happened yet in the iteration
NewIteration ==
    [before |-> "none", invoked |-> FALSE, after |-> "none", done |-> {},
     checked |-> FALSE]

\* `yield state`: the snapshot is handed out; when stream is consumed by
\* run_research the body of its for loop runs before stream resumes at next_pc
Yield(next_pc) ==
    /\ yields' = yields + 1
    /\ iter_yields' = iter_yields + 1
    /\ snap' = state'.messages
    /\ pc' = IF svc = "none" THEN next_pc ELSE "consume"
    /\ resume' = IF svc = "none" THEN resume ELSE next_pc

\* the locals of stream before its loop, for a run started from a state of
\* S; consumer is "none" or, under run_research, "running": run_research
\* logs the task of "ResearchManager" before it enters stream
StreamStarts(S, consumer) ==
    /\ state \in S
    /\ pc = "loop"
    /\ iteration = 0
    /\ max_iterations = MaxIterations
    /\ prev_completed_tasks = {}
    /\ stalled_iterations = 0
    /\ next_agent = "None"
    /\ yields = 0
    /\ iter_yields = 0
    /\ iter_completed = {}
    /\ unchanged_iters = 0
    /\ end_reason = "running"
    /\ rejected = FALSE
    /\ picked = 0
    /\ it = NewIteration
    /\ snap = <<>>
    /\ svc = consumer
    /\ resume = "none"
    /\ metrics = IF consumer = "none" THEN FreshMetrics
                 ELSE log_agent_task(FreshMetrics, "ResearchManager", TRUE)
    /\ calls = IF consumer = "none" THEN <<>> ELSE <<AgentCall("ResearchManager", TRUE)>>
    /\ route = "unset"
    /\ merged = NoMerge

Init == StreamStarts(InitialStates, "none")

----------------------------------------------------------------------------
(* SimpleOrchestrator.stream, one action per step of an iteration *)

\* history: the iteration that ends with state s left completed unchanged
IterUnchanged(s) == Range(s.completed_tasks) = iter_completed

\* the loop condition letting one iteration too many through
loop_condition_off_by_one == iteration <= max_iterations

\* `while iteration < max_iterations`
loop_condition == iteration < max_iterations

\* the loop head with a loop that marks the run complete when the budget is
\* exhausted
Schedule_completes_on_exhaustion ==
    /\ UNCHANGED <<metrics, calls, route, merged>>
    /\ pc = "loop"
    /\ IF loop_condition
       THEN LET agent == determine_next_agent(state)
            IN /\ iteration' = iteration + 1
               /\ next_agent' = agent
               /\ iter_yields' = 0
               /\ it' = NewIteration
               /\ iter_completed' = Range(state.completed_tasks)
               /\ pc' = IF agent = "None" THEN "done"
                        ELSE IF requires_approval(agent, state) THEN "before"
                        ELSE "run"
               /\ end_reason' = IF agent = "None" THEN "no_agent" ELSE end_reason
       ELSE /\ pc' = "done"
            /\ end_reason' = "max_iterations"
            /\ UNCHANGED <<iteration, next_agent, iter_yields, iter_completed, it>>
    /\ state' = IF loop_condition THEN state ELSE [state EXCEPT !.status = "complete"]
    /\ UNCHANGED <<max_iterations, prev_completed_tasks, stalled_iterations,
                   yields, unchanged_iters, picked, rejected, snap, svc, resume>>

\* the loop head, _determine_next_agent, the test of the before gate
Schedule ==
    /\ UNCHANGED <<metrics, calls, route, merged>>
    /\ pc = "loop"
    /\ IF loop_condition
       THEN LET agent == determine_next_agent(state)
            IN /\ iteration' = iteration + 1
               /\ next_agent' = agent
               /\ iter_yields' = 0
               /\ it' = NewIteration
               /\ iter_completed' = Range(state.completed_tasks)
               /\ pc' = IF agent = "None" THEN "done"
                        ELSE IF requires_approval(agent, state) THEN "before"
                        ELSE "run"
               /\ end_reason' = IF agent = "None" THEN "no_agent" ELSE end_reason
       ELSE /\ pc' = "done"
            /\ end_reason' = "max_iterations"
            /\ UNCHANGED <<iteration, next_agent, iter_yields, iter_completed, it>>
    /\ UNCHANGED <<state, max_iterations, prev_completed_tasks, stalled_iterations,
                   yields, unchanged_iters, picked, rejected, snap, svc, resume>>

\* _get_approval answered 'y' at the before gate
BeforeApprove ==
    /\ UNCHANGED <<metrics, calls, route, merged>>
    /\ pc = "before"
    /\ pc' = "run"
    /\ it' = [it EXCEPT !.before = "approved"]
    /\ UNCHANGED <<state, iteration, max_iterations, prev_completed_tasks,
                   stalled_iterations, next_agent, yields, iter_yields,
                   iter_completed, unchanged_iters, end_reason, picked, rejected,
                   snap, svc, resume>>

\* a before rejection that goes on to the next iteration without yielding
BeforeReject_no_yield ==
    /\ UNCHANGED <<metrics, calls, route, merged>>
    /\ pc = "before"
    /\ state' = handle_rejection(next_agent, state)
    /\ pc' = "loop"
    /\ unchanged_iters' = IF IterUnchanged(state') THEN unchanged_iters + 1 ELSE 0
    /\ it' = [it EXCEPT !.before = "rejected"]
    /\ UNCHANGED <<iteration, max_iterations, prev_completed_tasks,
                   stalled_iterations, next_agent, iter_completed, end_reason, picked,
                   svc, yields, iter_yields, snap, resume>>
    /\ rejected' = TRUE

\* _get_approval answered otherwise: _handle_rejection, yield, continue
BeforeReject ==
    /\ UNCHANGED <<metrics, calls, route, merged>>
    /\ pc = "before"
    /\ state' = handle_rejection(next_agent, state)
    /\ Yield("loop")
    /\ unchanged_iters' = IF IterUnchanged(state') THEN unchanged_iters + 1 ELSE 0
    /\ it' = [it EXCEPT !.before = "rejected"]
    /\ UNCHANGED <<iteration, max_iterations, prev_completed_tasks,
                   stalled_iterations, next_agent, iter_completed, end_reason, picked,
                   svc>>
    /\ rejected' = TRUE

\* state = self.agents[next_agent](state), then the test of the after gate
Invoke(r) ==
    /\ UNCHANGED <<metrics, calls, route, merged>>
    /\ state' = r.st
    /\ pc' = IF r.raised THEN "raised"
             ELSE IF requires_result_approval(next_agent, r.st) THEN "after"
             ELSE "yield"
    /\ end_reason' = IF r.raised THEN "exception" ELSE end_reason
    /\ it' = [it EXCEPT !.invoked = TRUE,
                        !.done = Range(r.st.completed_tasks) \ Range(state.completed_tasks)]
    /\ UNCHANGED <<iteration, max_iterations, prev_completed_tasks,
                   stalled_iterations, next_agent, yields, iter_yields,
                   iter_completed, unchanged_iters, picked, rejected,
                   snap, svc, resume>>

RunManager ==
    /\ pc = "run" /\ next_agent = "research_manager"
    /\ \E o \in ManagerOutcomes : Invoke(research_manager(state, o))

RunRetrieval ==
    /\ pc = "run" /\ next_agent = "information_retrieval"
    /\ \E o \in RetrievalOutcomes : Invoke(information_retrieval(state, o))

RunAnalysis ==
    /\ pc = "run" /\ next_agent = "document_analysis"
    /\ Invoke(document_analysis(state))

RunEvaluation ==
    /\ pc = "run" /\ next_agent = "critical_evaluation"
    /\ \E o \in EvaluationOutcomes : Invoke(critical_evaluation(state, o))

RunReport ==
    /\ pc = "run" /\ next_agent = "report_generation"
    /\ \E o \in ReportOutcomes : Invoke(report_generation(state, o))

\* _get_approval(is_result=True) answered 'y'
AfterApprove ==
    /\ UNCHANGED <<metrics, calls, route, merged>>
    /\ pc = "after"
    /\ pc' = "yield"
    /\ it' = [it EXCEPT !.after = "approved"]
    /\ UNCHANGED <<state, iteration, max_iterations, prev_completed_tasks,
                   stalled_iterations, next_agent, yields, iter_yields,
                   iter_completed, unchanged_iters, end_reason, picked, rejected,
                   snap, svc, resume>>

\* answered otherwise: _handle_result_rejection.  For critical_evaluation
\* it assigns state.evaluation_results, which ResearchState does not
\* declare: the assignment is either refused (the call raises) or accepted
AfterReject ==
    /\ UNCHANGED <<metrics, calls, route, merged>>
    /\ pc = "after"
    /\ \/ /\ state' = handle_result_rejection(next_agent, state)
          /\ pc' = "yield"
          /\ UNCHANGED end_reason
       \/ /\ next_agent = "critical_evaluation"
          /\ state' = result_rejection_reset(next_agent, state)
          /\ pc' = "raised"
          /\ end_reason' = "exception"
    /\ it' = [it EXCEPT !.after = "rejected"]
    /\ UNCHANGED <<iteration, max_iterations, prev_completed_tasks,
                   stalled_iterations, next_agent, yields, iter_yields,
                   iter_completed, unchanged_iters, picked, snap, svc, resume>>
    /\ rejected' = TRUE

\* `yield state` after the agent ran
YieldState ==
    /\ UNCHANGED <<metrics, calls, route, merged>>
    /\ pc = "yield"
    /\ state' = state
    /\ Yield("stall")
    /\ UNCHANGED <<iteration, max_iterations, prev_completed_tasks,
                   stalled_iterations, next_agent, iter_completed,
                   unchanged_iters, end_reason, picked, rejected, it, svc>>

\* the progress check, the recovery, the abort test and the test of
\* status == "complete" that end the iteration
StallCheck ==
    /\ UNCHANGED <<metrics, calls, route, merged>>
    /\ pc = "stall"
    /\ LET current == Range(state.completed_tasks)
           same == current = prev_completed_tasks
           counted == IF same THEN stalled_iterations + 1 ELSE stalled_iterations
           s1 == IF same THEN stall_recovery(state, counted) ELSE state
           stalled == stalled_after_check(counted, same)
       IN IF stalled >= AbortThreshold
          THEN /\ state' = fallback_termination(s1)
               /\ stalled_iterations' = stalled
               /\ Yield("done")
               /\ end_reason' = "stall_breaker"
               /\ UNCHANGED prev_completed_tasks
          ELSE /\ state' = s1
               /\ stalled_iterations' = 0
               /\ prev_completed_tasks' = current
               /\ pc' = IF s1.status = "complete" THEN "done" ELSE "loop"
               /\ end_reason' = IF s1.status = "complete" THEN "complete" ELSE end_reason
               /\ UNCHANGED <<yields, iter_yields, snap, resume>>
    /\ unchanged_iters' = IF IterUnchanged(state') THEN unchanged_iters + 1 ELSE 0
    /\ it' = [it EXCEPT !.checked = TRUE]
    /\ UNCHANGED <<iteration, max_iterations, next_agent, iter_completed, picked,
                   rejected, svc>>

Next ==
    \/ Schedule
    \/ BeforeApprove
    \/ BeforeReject
    \/ RunManager
    \/ RunRetrieval
    \/ RunAnalysis
    \/ RunEvaluation
    \/ RunReport
    \/ AfterApprove
    \/ AfterReject
    \/ YieldState
    \/ StallCheck

Spec == Init /\ [][Next]_vars

\* the generator is driven by a consumer that keeps iterating, and every
\* approval request is answered: each step that is enabled is taken
FairSpec == Spec /\ WF_vars(Next)

\* the runs started with no task and nothing completed (the state built by
\* start_research is one of them)
EmptyStarts ==
    {s \in InitialStates : Len(s.tasks) = 0 /\ Len(s.completed_tasks) = 0}

InitFresh == StreamStarts(EmptyStarts, "none")

SpecFresh == InitFresh /\ [][Next]_vars

----------------------------------------------------------------------------
(* ResearchService.run_research: the consumer of stream's snapshots.  The  *)
(* yielded object, current_state and the stored state are one and the same *)
(* ResearchState object, the variable `state`.                             *)

\* add_messages(existing, new)
add_messages(existing, new) == IF existing = None THEN new ELSE existing[1] \o new

\* the lists with exactly the elements of S, each once
Orderings(S) == {q \in [1..Cardinality(S) -> S] : Range(q) = S}

\* a reducer that concatenates and keeps what occurs twice
append_unique_keeps_duplicates(existing, new) ==
    {(IF existing = None THEN <<>> ELSE existing[1]) \o new}

\* append_unique(existing, new): list(set(existing + new)); the order of a
\* list built from a set of strings is not fixed, so every order is a result
append_unique(existing, new) ==
    Orderings(Range((IF existing = None THEN <<>> ELSE existing[1]) \o new))

\* _update_state(old_state, new_state), completed a result of append_unique
update_state(old_state, new_state, completed) ==
    [new_state EXCEPT !.messages = add_messages(Some(old_state.messages),
                                                new_state.messages),
                      !.completed_tasks = completed]

\* f"Research encountered an error: {str(e)}"
ErrorReport == <<"Research encountered an error: ", "exception_text">>

\* the except clause of run_research without the assignment of the report
on_exception_no_report(s) == [s EXCEPT !.status = "error"]

\* the except clause of run_research
on_exception(s) == [s EXCEPT !.status = "error", !.report = ErrorReport]

\* the states run_research is started with: those of stream, and two more
\* in which a retrieval and an evaluation are the first stage to run
ServiceStates ==
    InitialStates \cup
    {Started(<<Task(1, "retrieve", "find information about", {}),
               Task(2, "analyze", "analyze information about", {})>>,
             <<>>, <<>>, 1, "researching"),
     Started(<<Task(1, "evaluate", "evaluate information about", {}),
               Task(2, "report", ReportDesc, {1})>>,
             <<>>, <<"web">>, 1, "researching")}

\* config["max_iterations"] is 10, 20 or 30 by depth; the model runs the
\* service with the budget MaxIterations
InitService == StreamStarts(ServiceStates, "running")

\* the body of `for output in self.orchestrator.stream(state, config)`:
\* _update_state, then the reads of updated_state.metadata, which raise
\* AttributeError while no agent has set the attribute
Consume ==
    /\ pc = "consume"
    /\ svc = "running"
    /\ \E completed \in append_unique(Some(state.completed_tasks),
                                       state.completed_tasks) :
          LET updated_state == update_state(state, state, completed)
          IN IF updated_state.metadata = NoMetadata
             THEN /\ state' = on_exception(updated_state)
                  /\ svc' = "failed"
                  /\ pc' = "closed"
                  /\ metrics' = log_agent_task(metrics, "ResearchService", FALSE)
                  /\ calls' = Append(calls, AgentCall("ResearchService", FALSE))
             ELSE /\ state' = updated_state
                  /\ svc' = svc
                  /\ pc' = resume
                  /\ metrics' = LogTools(log_agent_task(metrics,
                                                        updated_state.metadata.agent, TRUE),
                                         updated_state.metadata.tools_used)
                  /\ calls' = Append(calls, AgentCall(updated_state.metadata.agent, TRUE))
                                 \o ToolCalls(updated_state.metadata.tools_used)
    /\ UNCHANGED <<iteration, max_iterations, prev_completed_tasks,
                   stalled_iterations, next_agent, yields, iter_yields,
                   iter_completed, unchanged_iters, end_reason, rejected, picked,
                   it, snap, resume, route, merged>>

\* an exception raised inside stream reaches the except clause
CatchException ==
    /\ pc = "raised"
    /\ svc = "running"
    /\ state' = on_exception(state)
    /\ svc' = "failed"
    /\ pc' = "closed"
    /\ metrics' = log_agent_task(metrics, "ResearchService", FALSE)
    /\ calls' = Append(calls, AgentCall("ResearchService", FALSE))
    /\ UNCHANGED <<iteration, max_iterations, prev_completed_tasks,
                   stalled_iterations, next_agent, yields, iter_yields,
                   iter_completed, unchanged_iters, end_reason, rejected, picked,
                   it, snap, resume, route, merged>>

\* a final update that leaves the status of the last snapshot
FinalUpdate_keeps_status ==
    /\ pc = "done"
    /\ svc = "running"
    /\ state' = state
    /\ svc' = "finished"
    /\ pc' = "closed"
    /\ metrics' = log_agent_task(metrics, "ResearchService", TRUE)
    /\ calls' = Append(calls, AgentCall("ResearchService", TRUE))
    /\ UNCHANGED <<iteration, max_iterations, prev_completed_tasks,
                   stalled_iterations, next_agent, yields, iter_yields,
                   iter_completed, unchanged_iters, end_reason, rejected, picked,
                   it, snap, resume, route, merged>>

\* stream is exhausted: the final state update after the for loop
FinalUpdate ==
    /\ pc = "done"
    /\ svc = "running"
    /\ state' = [state EXCEPT !.status = "complete"]
    /\ svc' = "finished"
    /\ pc' = "closed"
    /\ metrics' = log_agent_task(metrics, "ResearchService", TRUE)
    /\ calls' = Append(calls, AgentCall("ResearchService", TRUE))
    /\ UNCHANGED <<iteration, max_iterations, prev_completed_tasks,
                   stalled_iterations, next_agent, yields, iter_yields,
                   iter_completed, unchanged_iters, end_reason, rejected, picked,
                   it, snap, resume, route, merged>>

\* a fraction num / den of naturals, den > 0
Frac(n, d) == [num |-> n, den |-> d]

FracLeq(a, b) == a.num * b.den <= b.num * a.den

FracEq(a, b) == a.num * b.den = b.num * a.den

FracMin(a, b) == IF FracLeq(a, b) THEN a ELSE b

\* the status query without the cap on the progress of a running research
get_research_status_uncapped(s) ==
    LET total_tasks == IF Len(s.tasks) > 0 THEN Len(s.tasks) ELSE 1
        completed_tasks == Len(s.completed_tasks)
    IN [status |-> s.status,
        progress |-> IF s.status = "complete" THEN Frac(1, 1)
                     ELSE Frac(completed_tasks, total_tasks),
        result |-> IF s.status = "complete"
                   THEN <<[summary |-> s.summary, report |-> s.report,
                           sources |-> s.sources]>>
                   ELSE <<>>]

\* get_research_status applied to the stored state s: the ResearchResponse
\* without its time estimate; result is <<>> for None
get_research_status(s) ==
    LET total_tasks == IF Len(s.tasks) > 0 THEN Len(s.tasks) ELSE 1
        completed_tasks == Len(s.completed_tasks)
    IN [status |-> s.status,
        progress |-> IF s.status = "complete" THEN Frac(1, 1)
                     ELSE IF total_tasks > 0
                     THEN FracMin(Frac(95, 100), Frac(completed_tasks, total_tasks))
                     ELSE Frac(0, 1),
        result |-> IF s.status = "complete"
                   THEN <<[summary |-> s.summary, report |-> s.report,
                           sources |-> s.sources]>>
                   ELSE <<>>]

NextService ==
    \/ Schedule
    \/ BeforeApprove
    \/ BeforeReject
    \/ RunManager
    \/ RunRetrieval
    \/ RunAnalysis
    \/ RunEvaluation
    \/ RunReport
    \/ AfterApprove
    \/ AfterReject
    \/ YieldState
    \/ StallCheck
    \/ Consume
    \/ CatchException
    \/ FinalUpdate

SpecService == InitService /\ [][NextService]_vars

----------------------------------------------------------------------------
(* The scheduler and the report handler applied to every research state of *)
(* a bounded family: task lists of up to MaxTasks tasks of any type, with  *)
(* satisfied, unsatisfied, cyclic and dangling dependencies, any subset of *)
(* them completed, any status.                                             *)

TaskTypes == {"retrieve", "analyze", "evaluate", "report", "other"}

DepChoices == {{}, {1}, {2}, {DanglingId}}

Statuses == {"planning", "reporting", "complete"}

TaskLists(max) ==
    UNION {{[i \in 1..n |-> Task(i, ty[i], "task for", dp[i])] :
              ty \in [1..n -> TaskTypes], dp \in [1..n -> DepChoices]} :
           n \in 0..max}

\* the ids of S in ascending order
RECURSIVE SeqOf(_)
SeqOf(S) == IF S = {} THEN <<>> ELSE <<First(S)>> \o SeqOf(S \ {First(S)})

SchedStates(max) ==
    {[FreshState EXCEPT !.tasks = ts, !.completed_tasks = SeqOf(c), !.status = st,
                        !.sub_questions = 1] :
        ts \in TaskLists(max), c \in SUBSET (1..max), st \in Statuses}

InitSched ==
    /\ state \in SchedStates(MaxTasks)
    /\ pc = "sched"
    /\ iteration = 0
    /\ max_iterations = 0
    /\ prev_completed_tasks = {}
    /\ stalled_iterations = 0
    /\ next_agent = "None"
    /\ yields = 0
    /\ iter_yields = 0
    /\ iter_completed = {}
    /\ unchanged_iters = 0
    /\ end_reason = "running"
    /\ rejected = FALSE
    /\ picked = 0
    /\ it = NewIteration
    /\ snap = <<>>
    /\ svc = "none"
    /\ resume = "none"
    /\ metrics = FreshMetrics
    /\ calls = <<>>
    /\ route = "unset"
    /\ merged = NoMerge

\* the outcomes of the report handler that differ in its decisions only
ReportDecisions == {o \in ReportOutcomes : o.draft = LlmText /\ o.summary = LlmText}

\* next_agent = self._determine_next_agent(state)
SchedSelect ==
    /\ UNCHANGED <<metrics, calls, merged>>
    /\ pc = "sched"
    /\ next_agent' = determine_next_agent(state)
    /\ route' = task_router(state)
    /\ pc' = "selected"
    /\ UNCHANGED <<state, iteration, max_iterations, prev_completed_tasks,
                   stalled_iterations, yields, iter_yields, iter_completed,
                   unchanged_iters, end_reason, picked, rejected, it, snap, svc, resume>>

\* ReportGenerationAgent.process(state), whatever the scheduler selected
SchedReport ==
    /\ UNCHANGED <<metrics, calls, route, merged>>
    /\ pc = "selected"
    /\ \E o \in ReportDecisions : state' = report_generation(state, o).st
    /\ picked' = report_task_picked(state)
    /\ pc' = "picked"
    /\ UNCHANGED <<iteration, max_iterations, prev_completed_tasks,
                   stalled_iterations, next_agent, yields, iter_yields,
                   iter_completed, unchanged_iters, end_reason, rejected,
                   it, snap, svc, resume>>

\* state = self.agents[next_agent](state) for the other stages
SchedInvoke ==
    /\ UNCHANGED <<metrics, calls, route, merged>>
    /\ pc = "selected"
    /\ \/ /\ next_agent = "research_manager"
          /\ \E o \in ManagerOutcomes : state' = research_manager(state, o).st
       \/ /\ next_agent = "information_retrieval"
          /\ \E o \in RetrievalOutcomes : state' = information_retrieval(state, o).st
       \/ /\ next_agent = "document_analysis"
          /\ state' = document_analysis(state).st
       \/ /\ next_agent = "critical_evaluation"
          /\ \E o \in EvaluationOutcomes : state' = critical_evaluation(state, o).st
    /\ it' = [it EXCEPT !.invoked = TRUE]
    /\ pc' = "ran"
    /\ UNCHANGED <<iteration, max_iterations, prev_completed_tasks,
                   stalled_iterations, next_agent, yields, iter_yields,
                   iter_completed, unchanged_iters, end_reason, rejected,
                   picked, snap, svc, resume>>

\* the before gate of the selected stage answered with a rejection:
\* _handle_rejection(next_agent, state)
SchedBeforeReject ==
    /\ UNCHANGED <<metrics, calls, route, merged>>
    /\ pc = "selected"
    /\ next_agent # "None"
    /\ requires_approval(next_agent, state)
    /\ state' = handle_rejection(next_agent, state)
    /\ it' = [it EXCEPT !.before = "rejected"]
    /\ pc' = "skipped"
    /\ UNCHANGED <<iteration, max_iterations, prev_completed_tasks,
                   stalled_iterations, next_agent, yields, iter_yields,
                   iter_completed, unchanged_iters, end_reason, rejected,
                   picked, snap, svc, resume>>

\* _handle_result_rejection(agent_name, state) for either after-gated stage,
\* on the state the report handler left; for critical_evaluation the
\* assignment of the undeclared evaluation_results is refused or accepted
SchedResultReject ==
    /\ UNCHANGED <<metrics, calls, route, merged>>
    /\ pc = "picked"
    /\ \E agent_name \in RESULT_APPROVAL_AGENTS :
          /\ next_agent' = agent_name
          /\ \/ /\ state' = handle_result_rejection(agent_name, state)
                /\ pc' = "rolled_back"
             \/ /\ agent_name = "critical_evaluation"
                /\ state' = result_rejection_reset(agent_name, state)
                /\ pc' = "raised"
    /\ it' = [it EXCEPT !.after = "rejected"]
    /\ UNCHANGED <<iteration, max_iterations, prev_completed_tasks,
                   stalled_iterations, yields, iter_yields,
                   iter_completed, unchanged_iters, end_reason, rejected,
                   picked, snap, svc, resume>>

NextSched ==
    \/ SchedSelect
    \/ SchedReport
    \/ SchedInvoke
    \/ SchedBeforeReject
    \/ SchedResultReject

SpecSched == InitSched /\ [][NextSched]_vars

----------------------------------------------------------------------------
(* A ResearchMetrics object under any sequence of at most MaxCalls calls *)

AgentNames == {"TestAgent", "ResearchService"}
ToolNames == {"test_tool", "test_tool_error"}

\* the variables of stream and run_research, which no call on the metrics
\* object touches
run_vars == <<state, pc, iteration, max_iterations, prev_completed_tasks,
              stalled_iterations, next_agent, yields, iter_yields, iter_completed,
              unchanged_iters, end_reason, rejected, picked, it, snap, svc, resume,
              route, merged>>

InitMetrics ==
    /\ state = FreshState
    /\ pc = "metrics"
    /\ iteration = 0
    /\ max_iterations = 0
    /\ prev_completed_tasks = {}
    /\ stalled_iterations = 0
    /\ next_agent = "None"
    /\ yields = 0
    /\ iter_yields = 0
    /\ iter_completed = {}
    /\ unchanged_iters = 0
    /\ end_reason = "running"
    /\ rejected = FALSE
    /\ picked = 0
    /\ it = NewIteration
    /\ snap = <<>>
    /\ svc = "none"
    /\ resume = "none"
    /\ metrics = FreshMetrics
    /\ calls = <<>>
    /\ route = "unset"
    /\ merged = NoMerge

LogAgentTask ==
    /\ pc = "metrics"
    /\ Len(calls) < MaxCalls
    /\ \E agent_name \in AgentNames, success \in BOOLEAN :
          /\ metrics' = log_agent_task(metrics, agent_name, success)
          /\ calls' = Append(calls, AgentCall(agent_name, success))
    /\ UNCHANGED run_vars

LogToolUsage ==
    /\ pc = "metrics"
    /\ Len(calls) < MaxCalls
    /\ \E tool_name \in ToolNames :
          /\ metrics' = log_tool_usage(metrics, tool_name)
          /\ calls' = Append(calls, ToolCall(tool_name))
    /\ UNCHANGED run_vars

Reset ==
    /\ pc = "metrics"
    /\ Len(calls) < MaxCalls
    /\ metrics' = reset(metrics)
    /\ calls' = Append(calls, OtherCall("reset"))
    /\ UNCHANGED run_vars

\* generate_report reads the object and leaves it as it is
GenerateReport ==
    /\ pc = "metrics"
    /\ Len(calls) < MaxCalls
    /\ metrics' = metrics
    /\ calls' = Append(calls, OtherCall("generate_report"))
    /\ UNCHANGED run_vars

NextMetrics ==
    \/ LogAgentTask
    \/ LogToolUsage
    \/ Reset
    \/ GenerateReport

SpecMetrics == InitMetrics /\ [][NextMetrics]_vars

----------------------------------------------------------------------------
(* The completed-task reducer applied to any two lists of at most          *)
(* MaxTasks ids, and applied again to its own result                       *)

\* the lists of at most max ids among 1..max, an id possibly twice
IdLists(max) == UNION {[1..k -> 1..max] : k \in 0..max}

\* the variables no reducer call touches
reduce_vars == <<iteration, max_iterations, prev_completed_tasks,
                 stalled_iterations, next_agent, yields, iter_yields, iter_completed,
                 unchanged_iters, end_reason, rejected, picked, it, snap, svc, resume,
                 metrics, calls, route>>

InitReduce ==
    /\ state = FreshState
    /\ pc = "reduce"
    /\ iteration = 0
    /\ max_iterations = 0
    /\ prev_completed_tasks = {}
    /\ stalled_iterations = 0
    /\ next_agent = "None"
    /\ yields = 0
    /\ iter_yields = 0
    /\ iter_completed = {}
    /\ unchanged_iters = 0
    /\ end_reason = "running"
    /\ rejected = FALSE
    /\ picked = 0
    /\ it = NewIteration
    /\ snap = <<>>
    /\ svc = "none"
    /\ resume = "none"
    /\ metrics = FreshMetrics
    /\ calls = <<>>
    /\ route = "unset"
    /\ \E existing \in {None} \cup {Some(l) : l \in IdLists(MaxTasks)},
          new \in IdLists(MaxTasks) :
          merged = [NoMerge EXCEPT !.existing = existing, !.new = new]

\* state.completed_tasks = append_unique(existing, new)
ApplyAppendUnique ==
    /\ pc = "reduce"
    /\ \E result \in append_unique(merged.existing, merged.new) :
          /\ merged' = [merged EXCEPT !.result = result, !.applied = TRUE]
          /\ state' = [state EXCEPT !.completed_tasks = result]
    /\ pc' = "reduced"
    /\ UNCHANGED reduce_vars

\* the next merge: the stored list is reduced with the same new list again
ApplyAgain ==
    /\ pc = "reduced"
    /\ \E result \in append_unique(Some(state.completed_tasks), merged.new) :
          /\ merged' = [merged EXCEPT !.existing = Some(state.completed_tasks),
                                      !.result = result]
          /\ state' = [state EXCEPT !.completed_tasks = result]
    /\ pc' = "reduced_again"
    /\ UNCHANGED reduce_vars

NextReduce ==
    \/ ApplyAppendUnique
    \/ ApplyAgain

SpecReduce == InitReduce /\ [][NextReduce]_vars

----------------------------------------------------------------------------
(* Properties of the stall detector and recovery controller *)

\* the run is between two iterations or over
IterationOver == pc \in {"loop", "done"}

Contains(text, token) == \E i \in 1..Len(text) : text[i] = token

\* C1: stall circuit breaker.  In a run whose approval requests are all
\* granted, once 5 consecutive iterations have left the completed set
\* unchanged a state with status 'complete' has been yielded, however large
\* max_iterations is.
C1_StallBreakerWithinFive ==
    (IterationOver /\ ~rejected /\ unchanged_iters >= AbortThreshold)
        => state.status = "complete"

\* C2: a run in which the completed set never changes ends, at the fifth
\* stalled iteration, in a final state with status 'complete', a non-empty
\* report that contains the research question, and a system message appended
\* last.
C2_StalledRunEndsWithFallback ==
    (pc = "done" /\ ~rejected /\ iteration >= AbortThreshold
        /\ unchanged_iters = iteration)
        => /\ end_reason = "stall_breaker"
           /\ state.status = "complete"
           /\ state.report # <<>>
           /\ Contains(state.report, state.research_question)
           /\ Len(state.messages) > 0
           /\ state.messages[Len(state.messages)]
                  = Msg("completed_with_fallback_report", "agent")

\* a pending report task whose depends_on names an id that is no task's id
\* or the id of a pending report task: it can never become ready
BlockedReport(s, i) ==
    /\ s.tasks[i].type = "report"
    /\ s.tasks[i].id \notin Range(s.completed_tasks)
    /\ \E d \in s.tasks[i].depends_on :
          \/ \A j \in 1..Len(s.tasks) : s.tasks[j].id # d
          \/ \E j \in 1..Len(s.tasks) :
                /\ s.tasks[j].id = d
                /\ s.tasks[j].type = "report"
                /\ d \notin Range(s.completed_tasks)

OnlyBlockedReportsPending(s) ==
    /\ \E i \in 1..Len(s.tasks) : BlockedReport(s, i)
    /\ \A i \in 1..Len(s.tasks) :
          s.tasks[i].id \in Range(s.completed_tasks) \/ BlockedReport(s, i)

\* C3: when the only pending tasks are report tasks with a dangling or
\* cyclic dependency, the stall is ended by the circuit breaker: the run
\* does not go on past 5 stalled iterations, it is terminated with status
\* 'complete'.
C3_BlockedReportEndsByBreaker ==
    (IterationOver /\ ~rejected /\ OnlyBlockedReportsPending(state)
        /\ state.status # "complete")
        => unchanged_iters < AbortThreshold

IsDefaultPlan(ts) ==
    /\ Len(ts) = 4
    /\ \A ty \in {"retrieve", "analyze", "evaluate", "report"} :
          Cardinality({i \in 1..4 : ts[i].type = ty}) = 1

\* C4: default-plan recovery.  When the third consecutive iteration without
\* progress ends and the task list is still empty, the stall check gives
\* the state a default plan of 4 tasks, one of each type, and sets status
\* to 'researching'.
C4_DefaultPlanAfterThree ==
    [][(pc = "stall" /\ ~rejected /\ Len(state.tasks) = 0
          /\ unchanged_iters' = RecoveryThreshold)
        => (IsDefaultPlan(state'.tasks) /\ state'.status = "researching")]_vars

HasCompletedRetrieve(s) ==
    \E i \in 1..Len(s.tasks) :
        s.tasks[i].type = "retrieve" /\ s.tasks[i].id \in Range(s.completed_tasks)

\* C5: placeholder-source recovery.  When the third consecutive iteration
\* without progress ends with a completed retrieve task and no source, the
\* state that iteration leaves holds exactly the 2 synthesized sources.
C5_PlaceholderSourcesAfterThree ==
    [][(~IterationOver /\ IterationOver' /\ unchanged_iters' = RecoveryThreshold
          /\ HasCompletedRetrieve(state) /\ Len(state.sources) = 0)
        => state'.sources = MockSources]_vars

----------------------------------------------------------------------------
(* Properties of the scheduler, over every state of SchedStates *)

Completed(s, id) == \E j \in 1..Len(s.completed_tasks) : s.completed_tasks[j] = id

SomePending(s, type) ==
    \E i \in 1..Len(s.tasks) : s.tasks[i].type = type /\ ~Completed(s, s.tasks[i].id)

\* C6: idempotent terminality.  For every state with status 'complete',
\* whatever its tasks and completed set, the scheduler returns None.
C6_CompleteSelectsNone ==
    (pc = "selected" /\ state.status = "complete") => next_agent = "None"

C6_Witness ==
    /\ pc = "selected"
    /\ state.status = "complete"
    /\ SomePending(state, "retrieve")
    /\ next_agent = "None"

\* C7: strict type precedence.  For every state whose status is not
\* 'complete' the scheduler returns information_retrieval if a retrieve task
\* is pending, else document_analysis if an analyze task is pending, else
\* critical_evaluation if an evaluate task is pending, whatever the tasks'
\* depends_on.
C7_StrictTypePrecedence ==
    (pc = "selected" /\ state.status # "complete")
        => /\ SomePending(state, "retrieve") => next_agent = "information_retrieval"
           /\ (~SomePending(state, "retrieve") /\ SomePending(state, "analyze"))
                  => next_agent = "document_analysis"
           /\ (~SomePending(state, "retrieve") /\ ~SomePending(state, "analyze")
                  /\ SomePending(state, "evaluate"))
                  => next_agent = "critical_evaluation"

\* an analyze task whose dependencies are met is pending, the only pending
\* retrieve task depends on an id that does not exist, and retrieval is
\* selected all the same
C7_Witness ==
    /\ pc = "selected"
    /\ state.status # "complete"
    /\ next_agent = "information_retrieval"
    /\ \E i, j \in 1..Len(state.tasks) :
          /\ state.tasks[i].type = "retrieve" /\ ~Completed(state, state.tasks[i].id)
          /\ state.tasks[i].depends_on = {DanglingId}
          /\ state.tasks[j].type = "analyze" /\ ~Completed(state, state.tasks[j].id)
          /\ state.tasks[j].depends_on = {}

DepsCompleted(s, i) == \A d \in s.tasks[i].depends_on : Completed(s, d)

\* C8: the report stage is selected only when some pending report task has
\* every id of its depends_on in completed, and the task the report handler
\* picks is a report task that was pending with every id of its depends_on
\* in completed; this holds for cyclic and dangling dependencies too.
C8_ReportOnlyWhenDepsCompleted ==
    /\ (pc = "selected" /\ next_agent = "report_generation")
          => \E i \in 1..Len(state.tasks) :
                /\ state.tasks[i].type = "report"
                /\ ~Completed(state, state.tasks[i].id)
                /\ DepsCompleted(state, i)
    /\ (pc = "picked" /\ picked # 0)
          => /\ state.tasks[picked].type = "report"
             /\ \A d \in state.tasks[picked].depends_on :
                   d # state.tasks[picked].id /\ Completed(state, d)

\* the scheduler selected the report stage and the handler picked a ready
\* report task while another report task hangs on a dangling dependency
C8_Witness ==
    /\ pc = "picked"
    /\ next_agent = "report_generation"
    /\ picked # 0
    /\ state.tasks[picked].depends_on # {}
    /\ \E i \in 1..Len(state.tasks) :
          /\ i # picked
          /\ state.tasks[i].type = "report"
          /\ state.tasks[i].depends_on = {DanglingId}

----------------------------------------------------------------------------
(* Properties of the run loop *)

Finished == pc \in {"done", "raised"}

\* a measure every step of the generator decreases
PcRank ==
    CASE pc = "before" -> 6
      [] pc = "run" -> 5
      [] pc = "after" -> 4
      [] pc = "yield" -> 3
      [] pc = "stall" -> 2
      [] pc = "loop" -> 1
      [] OTHER -> 0

StepsLeft == (max_iterations - iteration) * 8 + PcRank

\* C9 as stated: stream runs at most max_iterations iterations and yields
\* finitely many snapshots, and it is over before the budget is used up
\* exactly when the scheduler returned None, status became 'complete' or the
\* circuit breaker fired - each of which leaves status 'complete'.
C9_EarlyStopOnlyWhenComplete ==
    /\ iteration <= max_iterations
    /\ yields <= iteration + 1
    /\ (Finished /\ iteration < max_iterations) => state.status = "complete"
    /\ (pc = "loop" /\ iteration > 0) => state.status # "complete"

\* C9 amended: every step of stream uses up a bounded budget, so the run is
\* finite; it runs at most max_iterations iterations, yields at most one
\* snapshot more than it ran iterations, goes on only while status is not
\* 'complete', and is over before the budget is used up exactly when status
\* is 'complete' (scheduler returned None, handler completed the run, circuit
\* breaker) or a handler or the result-rejection handling raised.
C9_Termination ==
    /\ [](/\ iteration <= max_iterations
          /\ yields <= iteration + 1
          /\ (Finished /\ iteration < max_iterations)
                => (state.status = "complete" \/ pc = "raised")
          /\ (pc = "loop" /\ iteration > 0) => state.status # "complete")
    /\ [][StepsLeft' < StepsLeft /\ StepsLeft' >= 0]_vars

\* a run ended by an exception before the budget was used up, status not
\* 'complete'
C9_Witness ==
    /\ pc = "raised"
    /\ iteration > 1
    /\ iteration < max_iterations
    /\ state.status # "complete"

\* C10: when stream ends because max_iterations is exhausted, the loop's exit
\* leaves the state as it is: status keeps the value it holds and is not set
\* to 'complete'.
C10_ExhaustionKeepsStatus ==
    [][(pc = "loop" /\ iteration >= max_iterations /\ pc' = "done")
        => (state' = state /\ state'.status # "complete")]_vars

C10_Witness ==
    /\ pc = "done"
    /\ end_reason = "max_iterations"
    /\ iteration = max_iterations
    /\ state.status = "researching"

----------------------------------------------------------------------------
(* Properties of the run loop's snapshots and of the approval gate *)

\* stream is between two iterations or has stopped, after at least one
IterationEnded == pc \in {"loop", "done", "raised"} /\ iteration > 0

\* C11 as stated: every iteration of the run loop yields exactly one
\* snapshot, whether or not a handler executed; none yields zero or two.
C11_OneYieldPerIteration == IterationEnded => iter_yields = 1

\* C11 amended: an iteration yields one snapshot when a stage was selected
\* and its handler and rejection handling returned - also when the stage was
\* rejected at the before gate and no handler ran; it yields none when the
\* scheduler selected no stage or an exception ended it; none yields two.
C11_YieldsPerIteration ==
    /\ iter_yields <= 1
    /\ IterationEnded
          => iter_yields = IF end_reason \in {"no_agent", "exception"} THEN 0 ELSE 1
    /\ (IterationEnded /\ it.before = "rejected") => (iter_yields = 1 /\ ~it.invoked)

\* an iteration rejected at the before gate has yielded its snapshot
C11_Witness ==
    /\ pc = "loop"
    /\ it.before = "rejected"
    /\ ~it.invoked
    /\ iter_yields = 1
    /\ yields = iteration

\* some task not in completed_tasks carries a high-risk phrase
HighRiskPending(s) ==
    \E i \in 1..Len(s.tasks) :
        /\ s.tasks[i].id \notin Range(s.completed_tasks)
        /\ Lower(s.tasks[i].description) \in {"generate_final_report", "publish_results"}

\* C12: an approval is requested before a stage is invoked exactly when the
\* stage is report_generation or a pending task has a high-risk description;
\* in every other case the handler is invoked with no before request.
C12_BeforeGate ==
    /\ [][(pc = "loop" /\ pc' \in {"before", "run"})
            => (pc' = "before"
                  <=> (next_agent' = "report_generation" \/ HighRiskPending(state)))]_vars
    /\ [](pc = "run"
            => (it.before = "approved"
                  <=> (next_agent = "report_generation" \/ HighRiskPending(state))))
    /\ [](pc = "run" => it.before \in {"approved", "none"})

\* a stage other than report_generation waits at the before gate
C12_Witness ==
    /\ pc = "before"
    /\ next_agent = "document_analysis"
    /\ HighRiskPending(state)

\* C13: whenever the critical_evaluation or report_generation handler was
\* invoked and returned, a result approval is requested and answered before
\* the snapshot is yielded, whether or not a before approval was requested;
\* no result approval is requested for another stage or without a handler.
C13_AfterGate ==
    /\ pc = "after" => (it.invoked /\ it.after = "none"
                          /\ next_agent \in {"critical_evaluation", "report_generation"})
    /\ pc = "yield"
         => /\ it.invoked
            /\ it.after # "none"
                 <=> next_agent \in {"critical_evaluation", "report_generation"}
    /\ it.after # "none" => it.invoked
    /\ it.before = "rejected" => it.after = "none"

\* the evaluation's result was approved although no before approval was asked
C13_Witness ==
    /\ pc = "yield"
    /\ next_agent = "critical_evaluation"
    /\ it.before = "none"
    /\ it.after = "approved"

\* the number of messages with the given content
CountMsg(msgs, content) == Cardinality({i \in 1..Len(msgs) : msgs[i].content = content})

IsPrefix(a, b) == Len(a) <= Len(b) /\ SubSeq(b, 1, Len(a)) = a

\* C14: on a before rejection the handler is not invoked in that iteration
\* and a human_intervention message is appended; if the rejected stage is
\* report_generation each pending report task is added to completed_tasks
\* with a note that the report was skipped by user request.
C14_BeforeRejection ==
    /\ [](it.before = "rejected" => (~it.invoked /\ pc \in {"loop", "done"}))
    /\ [][(pc = "before" /\ it'.before = "rejected")
            => /\ IsPrefix(state.messages, state'.messages)
               /\ state'.messages[Len(state.messages) + 1]
                     = [content |-> "action_rejected", type |-> "human_intervention"]
               /\ next_agent = "report_generation"
                     => /\ Pending(state, "report") # {}
                        /\ \A i \in Pending(state, "report") :
                              state.tasks[i].id \in Range(state'.completed_tasks)
                        /\ CountMsg(state'.messages, "report_skipped")
                              = CountMsg(state.messages, "report_skipped")
                                  + Cardinality(Pending(state, "report"))
               /\ next_agent # "report_generation"
                     => state'.completed_tasks = state.completed_tasks]_vars

\* report_generation was rejected at the before gate: its task is completed
C14_Witness ==
    /\ pc = "loop"
    /\ it.before = "rejected"
    /\ next_agent = "report_generation"
    /\ \E i \in 1..Len(state.tasks) :
          /\ state.tasks[i].type = "report"
          /\ state.tasks[i].id \in Range(state.completed_tasks) \ iter_completed
    /\ CountMsg(state.messages, "report_skipped") = 1

\* C15 as stated: when the handler of an after-gated stage completed its task
\* and the result is then rejected, the task id is absent from completed_tasks
\* in the snapshot yielded next and the scheduler, applied to that state,
\* selects the same stage again.
C15_RejectedStageRerun ==
    (it.after = "rejected" /\ it.done # {} /\ pc \in {"yield", "stall", "loop", "done"})
        => /\ it.done \cap Range(state.completed_tasks) = {}
           /\ determine_next_agent(state) = next_agent

TaskIds(s) == {s.tasks[i].id : i \in 1..Len(s.tasks)}

\* C16: in a run started with no task and nothing completed, every id in
\* completed_tasks is the id of a task in tasks, whatever handlers ran and
\* whatever was rejected.
C16_CompletedSubsetOfTasks == Range(state.completed_tasks) \subseteq TaskIds(state)

\* two tasks are completed after a rejection took place
C16_Witness ==
    /\ pc = "loop"
    /\ rejected
    /\ Cardinality(Range(state.completed_tasks)) >= 2
    /\ Cardinality(TaskIds(state)) > Cardinality(Range(state.completed_tasks))

\* C17: the message log is append-only: the log of a yielded snapshot is a
\* prefix of the log of the snapshot yielded next, and a before rejection, an
\* after rejection and a forced termination (as every other step) only
\* append to the log.
C17_MessagesAppendOnly ==
    /\ [][yields' > yields => IsPrefix(snap, state'.messages)]_vars
    /\ [][IsPrefix(state.messages, state'.messages)]_vars
    /\ [][(it'.before = "rejected" /\ it.before # "rejected")
            => Len(state'.messages) > Len(state.messages)]_vars
    /\ [][(it'.after = "rejected" /\ it.after # "rejected")
            => Len(state'.messages) > Len(state.messages)]_vars
    /\ [][end_reason' = "stall_breaker" => Len(state'.messages) > Len(state.messages)]_vars

\* a second snapshot was yielded after a result rejection grew the log
C17_Witness ==
    /\ pc = "stall"
    /\ yields >= 2
    /\ it.after = "rejected"
    /\ snap = state.messages
    /\ Len(snap) >= 3

\* C18: once status is 'complete' it stays 'complete', no stage is selected
\* and no handler is invoked for the rest of the run.
C18_CompleteIsTerminal ==
    /\ [](state.status = "complete" => pc \notin {"before", "run"})
    /\ [][state.status = "complete"
            => /\ state'.status = "complete"
               /\ pc' \notin {"before", "run"}
               /\ it'.invoked = it.invoked \/ it' = NewIteration
               /\ iteration' # iteration => next_agent' = "None"]_vars

\* a handler completed the run before the budget was used up
C18_Witness ==
    /\ pc = "done"
    /\ end_reason = "complete"
    /\ state.status = "complete"
    /\ it.invoked
    /\ iteration < max_iterations

----------------------------------------------------------------------------
(* Properties of run_research *)

C20_TerminalStateHasReport ==
    svc \in {"finished", "failed"} => state.report # <<>>

\* C21: the status query on the stored state returns a result (summary,
\* report, sources) exactly when status is 'complete'; its progress is 1
\* exactly when status is 'complete' and otherwise the fraction of completed
\* tasks, capped at 0.95, with a total of 1 for an empty task list.
C21_StatusQuery ==
    LET response == get_research_status(state)
        done == Cardinality(Range(state.completed_tasks))
        total == IF Len(state.tasks) = 0 THEN 1 ELSE Len(state.tasks)
    IN /\ response.status = state.status
       /\ response.result # <<>> <=> state.status = "complete"
       /\ response.result # <<>>
            => response.result = <<[summary |-> state.summary, report |-> state.report,
                                    sources |-> state.sources]>>
       /\ FracEq(response.progress, Frac(1, 1)) <=> state.status = "complete"
       /\ state.status # "complete"
            => IF 100 * done <= 95 * total
               THEN FracEq(response.progress, Frac(done, total))
               ELSE FracEq(response.progress, Frac(95, 100))
       /\ (state.status # "complete" /\ done = 0) => response.progress.num = 0

\* every task is completed but the research is not: the progress is capped
C21_Witness ==
    /\ svc = "running"
    /\ state.status = "researching"
    /\ Len(state.tasks) > 0
    /\ Cardinality(Range(state.completed_tasks)) = Len(state.tasks)
    /\ get_research_status(state).progress = Frac(95, 100)
    /\ get_research_status(state).result = <<>>

\* the calls made on the metrics object since it was last fresh
RECURSIVE SinceReset(_)
SinceReset(cs) ==
    IF cs = <<>> \/ cs[Len(cs)].op = "reset" THEN <<>>
    ELSE Append(SinceReset(SubSeq(cs, 1, Len(cs) - 1)), cs[Len(cs)])

\* the names the calls of kind op in cs were made for
NamesLogged(cs, op) == {cs[i].name : i \in {j \in 1..Len(cs) : cs[j].op = op}}

\* the number of calls of kind op for name in cs, the successful ones left
\* out when failures_only
TimesLogged(cs, op, name, failures_only) ==
    Cardinality({i \in 1..Len(cs) : /\ cs[i].op = op
                                    /\ cs[i].name = name
                                    /\ failures_only => ~cs[i].success})

\* C22: after any sequence of log_agent_task and log_tool_usage calls on a
\* fresh ResearchMetrics, agent_performance[a].tasks is the number of
\* log_agent_task calls for a, .errors the number of those with success False
\* (so errors <= tasks), tool_usage[t] the number of log_tool_usage calls for
\* t, and generate_report returns exactly these counts.
C22_MetricsCount ==
    LET cs == SinceReset(calls)
        agents == NamesLogged(cs, "log_agent_task")
        tools == NamesLogged(cs, "log_tool_usage")
        report == generate_report(metrics)
    IN /\ DOMAIN metrics.agent_performance = agents
       /\ DOMAIN metrics.tool_usage = tools
       /\ \A a \in agents :
             /\ metrics.agent_performance[a].tasks
                  = TimesLogged(cs, "log_agent_task", a, FALSE)
             /\ metrics.agent_performance[a].errors
                  = TimesLogged(cs, "log_agent_task", a, TRUE)
             /\ metrics.agent_performance[a].errors <= metrics.agent_performance[a].tasks
       /\ \A t \in tools :
             metrics.tool_usage[t] = TimesLogged(cs, "log_tool_usage", t, FALSE)
       /\ DOMAIN report.agent_performance = agents
       /\ DOMAIN report.tool_usage = tools
       /\ \A a \in agents :
             report.agent_performance[a]
               = [tasks |-> TimesLogged(cs, "log_agent_task", a, FALSE),
                  errors |-> TimesLogged(cs, "log_agent_task", a, TRUE)]
       /\ \A t \in tools :
             report.tool_usage[t] = TimesLogged(cs, "log_tool_usage", t, FALSE)

\* the sequence of test_metrics_tracking: an agent logged once with success and
\* once without, and two tools logged once each, with no reset among the calls
C22_Witness ==
    /\ pc = "metrics"
    /\ Len(SinceReset(calls)) = Len(calls)
    /\ "TestAgent" \in DOMAIN metrics.agent_performance
    /\ metrics.agent_performance["TestAgent"] = [tasks |-> 2, errors |-> 1]
    /\ DOMAIN metrics.tool_usage = {"test_tool", "test_tool_error"}
    /\ generate_report(metrics).tool_usage["test_tool"] = 1

\* C23: after reset, whatever was logged before, agent_performance and
\* tool_usage are empty and generate_report returns empty mappings.
C23_ResetEmpties ==
    (calls # <<>> /\ calls[Len(calls)].op = "reset")
      => /\ DOMAIN metrics.agent_performance = {}
         /\ DOMAIN metrics.tool_usage = {}
         /\ DOMAIN generate_report(metrics).agent_performance = {}
         /\ DOMAIN generate_report(metrics).tool_usage = {}

\* a reset of an object on which an agent task and a tool were logged
C23_Witness ==
    /\ pc = "metrics"
    /\ Len(calls) >= 3
    /\ calls[Len(calls)].op = "reset"
    /\ calls[Len(calls) - 1].op = "log_tool_usage"
    /\ calls[Len(calls) - 2].op = "log_agent_task"
    /\ metrics = FreshMetrics

----------------------------------------------------------------------------
(* Properties of the stall check's bookkeeping and of its place in the     *)
(* iteration                                                               *)

\* C24: in each iteration's stall check, if the current completed set equals
\* the previous snapshot the stall counter is incremented by one and the
\* increment is carried into the next iteration (except for the reset that
\* follows a corrective action at count 3); otherwise the counter is reset to
\* 0 and the snapshot becomes the current completed set.
C24_StallCounterUpdate ==
    [][pc = "stall"
        => IF Range(state.completed_tasks) = prev_completed_tasks
           THEN \/ stalled_iterations' = stalled_iterations + 1
                \/ /\ stalled_iterations + 1 = RecoveryThreshold
                   /\ stalled_iterations' = 0
           ELSE /\ stalled_iterations' = 0
                /\ prev_completed_tasks' = Range(state.completed_tasks)]_vars

\* C25: the stall check changes the task list or the sources only in an
\* iteration in which the stall count has reached exactly 3, resetting the
\* count to 0 afterwards; at a stall count of 1 or 2 it leaves the state as
\* it is.
C25_CorrectiveOnlyAtThree ==
    [][(pc = "stall"
          /\ (state'.tasks # state.tasks \/ state'.sources # state.sources))
        => /\ Range(state.completed_tasks) = prev_completed_tasks
           /\ stalled_iterations + 1 = RecoveryThreshold
           /\ stalled_iterations' = 0]_vars

\* C26: the stall check runs in every iteration in which a stage was
\* selected, the iterations rejected at the before gate included.
C26_StallCheckEveryIteration ==
    (pc = "loop" /\ iteration > 0) => it.checked

\* C27: the stall check's comparison and corrective mutation precede the
\* iteration's yield: between the yield of a snapshot and the start of the
\* next iteration the run loop does not change the state.
C27_NoMutationAfterYield ==
    [][(svc = "none" /\ iter_yields >= 1) => state' = state]_vars

----------------------------------------------------------------------------
(* The scheduler's fallback, over every state of SchedStates *)

\* C28: for every state with status other than 'complete' in which no
\* retrieve, analyze or evaluate task is pending and no pending report task
\* has all its depends_on completed, the scheduler returns research_manager;
\* it returns None only when status is 'complete', and every other result is
\* a key of the handler registry.
C28_SchedulerFallback ==
    pc = "selected"
      => /\ (/\ state.status # "complete"
             /\ ~SomePending(state, "retrieve")
             /\ ~SomePending(state, "analyze")
             /\ ~SomePending(state, "evaluate")
             /\ ~\E i \in 1..Len(state.tasks) :
                    /\ state.tasks[i].type = "report"
                    /\ ~Completed(state, state.tasks[i].id)
                    /\ DepsCompleted(state, i))
              => next_agent = "research_manager"
         /\ next_agent = "None" => state.status = "complete"
         /\ next_agent # "None" => next_agent \in AgentRegistry

\* the manager is selected for a task list whose only pending task is a
\* report task that hangs on a dangling dependency
C28_Witness ==
    /\ pc = "selected"
    /\ state.status # "complete"
    /\ next_agent = "research_manager"
    /\ Len(state.tasks) = 2
    /\ state.tasks[1].type = "report"
    /\ state.tasks[1].depends_on = {DanglingId}
    /\ ~Completed(state, 1)
    /\ Completed(state, 2)

----------------------------------------------------------------------------
(* Properties of the rejection of a result and of the task list *)

\* C29: when the result of an after-gated stage is rejected, a
\* human_intervention message is appended and the artifacts the handler
\* produced are cleared - the report draft and report for report_generation,
\* the evaluation for critical_evaluation - so that none remains in the
\* yielded state.
C29_AfterRejectionRollback ==
    (pc = "yield" /\ it.after = "rejected")
      => /\ Len(state.messages) > 0
         /\ state.messages[Len(state.messages)] = HumanIntervention("results_rejected")
         /\ next_agent = "report_generation"
              => (state.report_draft = "None" /\ state.report = <<>>)
         /\ next_agent = "critical_evaluation"
              => (state.evaluation_summary = "None" /\ state.evaluations = "empty")

\* C30: in a run started from an empty task list a task, once in
\* state.tasks, is in every later state of the run; the task list is
\* assigned only when it is empty.
C30_TasksNeverRemoved ==
    [][/\ Range(state.tasks) \subseteq Range(state'.tasks)
       /\ state'.tasks # state.tasks => Len(state.tasks) = 0]_vars

\* the manager has run again on a state that holds its plan, and the plan is
\* still there
C30_Witness ==
    /\ iteration >= 2
    /\ next_agent = "research_manager"
    /\ it.invoked
    /\ Len(state.tasks) > 0
    /\ Len(state.messages) > 0
    /\ state.messages[Len(state.messages)].content \in
          {"research_in_progress", "final_report_generated"}

----------------------------------------------------------------------------
(* Properties of the reducers of run_research *)

\* C31: merging the stored state with a newly yielded state appends messages
\* without duplicates: after each yield processed by run_research every
\* message produced during the run appears exactly once in the stored log,
\* that is, the stored log is the log of the yielded state - also when the
\* yielded state is the same object as the previous one.
C31_MessagesMergedOnce ==
    [][pc = "consume" => state'.messages = snap]_vars

\* C32: append_unique(existing, new) returns a list holding exactly the
\* union of the ids of existing and new, each id once (existing = None as
\* the empty list); as a set the result is idempotent and commutative; its
\* order is any order, not that of completion.
C32_AppendUnique ==
    merged.applied
      => LET existing == IF merged.existing = None THEN <<>> ELSE merged.existing[1]
             ids == Range(existing) \cup Range(merged.new)
         IN /\ state.completed_tasks = merged.result
            /\ Range(merged.result) = ids
            /\ Len(merged.result) = Cardinality(ids)
            /\ \A again \in append_unique(Some(merged.result), merged.result) :
                  Range(again) = ids /\ Len(again) = Cardinality(ids)
            /\ \A swapped \in append_unique(Some(merged.new), existing) :
                  Range(swapped) = ids /\ Len(swapped) = Cardinality(ids)

\* two ids completed in the order 1, 2 are merged with a list that repeats
\* one of them, and come out once each in the order 2, 1
C32_Witness ==
    /\ pc = "reduced"
    /\ merged.existing = Some(<<1, 2>>)
    /\ merged.new = <<2>>
    /\ merged.result = <<2, 1>>
    /\ state.completed_tasks = <<2, 1>>

----------------------------------------------------------------------------
(* Frame properties of the two rejection handlers *)

\* the task type whose completion _handle_result_rejection withdraws
RejectedType(agent_name) ==
    IF agent_name = "critical_evaluation" THEN "evaluate" ELSE "report"

C34_AfterRejectionFrame ==
    [][(pc = "after" /\ it'.after = "rejected")
        => /\ state'.status = state.status
           /\ state'.report = state.report
           /\ state'.summary = state.summary
           /\ state'.sources = state.sources
           /\ state'.tasks = state.tasks]_vars

\* the report was rejected and the state about to be yielded still has
\* status 'complete' and the report
C34_Witness ==
    /\ pc = "yield"
    /\ it.after = "rejected"
    /\ next_agent = "report_generation"
    /\ state.status = "complete"
    /\ state.report # <<>>
    /\ state.report_draft = "None"

\* C35: a before-rejection of a stage other than report_generation changes
\* nothing in the state except appending exactly one human_intervention
\* message, so the scheduler selects the same stage again and approval is
\* required again.
C35_BeforeRejectionFrame ==
    [][(pc = "before" /\ it'.before = "rejected" /\ next_agent # "report_generation")
        => /\ state' = [state EXCEPT
                          !.messages = Append(@, HumanIntervention("action_rejected"))]
           /\ determine_next_agent(state') = next_agent
           /\ requires_approval(next_agent, state')]_vars

\* the analysis stage was rejected in an earlier iteration and stands at the
\* before gate again
C35_Witness ==
    /\ pc = "before"
    /\ iteration >= 2
    /\ next_agent = "document_analysis"
    /\ rejected
    /\ Len(state.messages) > 0
    /\ state.messages[Len(state.messages)] = HumanIntervention("action_rejected")

\* C36 as stated: after a before-rejection of report_generation every task
\* of the task list is in completed, and the next scheduling pass returns
\* research_manager.
C36_AllTasksCompleted ==
    (pc = "skipped" /\ next_agent = "report_generation")
      => /\ \A i \in 1..Len(state.tasks) : Completed(state, state.tasks[i].id)
         /\ determine_next_agent(state) = "research_manager"

\* C36 amended: after a before-rejection of report_generation every task of
\* the types retrieve, analyze, evaluate and report is in completed - the
\* report tasks whose depends_on is not satisfied included - status is not
\* 'complete' and the next scheduling pass returns research_manager; a
\* pending task of another type stays pending.
C36_ReportTasksSkipped ==
    (pc = "skipped" /\ next_agent = "report_generation")
      => /\ \A i \in 1..Len(state.tasks) :
               state.tasks[i].type \in {"retrieve", "analyze", "evaluate", "report"}
                 => Completed(state, state.tasks[i].id)
         /\ state.status # "complete"
         /\ determine_next_agent(state) = "research_manager"

\* a report task that hangs on a dangling dependency was marked completed
\* together with the report task that was ready
C36_Witness ==
    /\ pc = "skipped"
    /\ next_agent = "report_generation"
    /\ Len(state.tasks) = 2
    /\ state.tasks[1].type = "report" /\ state.tasks[1].depends_on = {DanglingId}
    /\ state.tasks[2].type = "report" /\ state.tasks[2].depends_on = {}
    /\ state.completed_tasks = <<1, 2>>
    /\ CountMsg(state.messages, "report_skipped") = 2

----------------------------------------------------------------------------
(* The completed list, from every state of SchedStates, under each handler *)
(* and each rejection handler                                              *)

\* C37: completed_tasks never holds the same id twice: from a state without
\* duplicates, every handler invocation, before rejection and after
\* rejection leaves every id at most once in completed_tasks.
C37_NoDuplicateCompleted ==
    Len(state.completed_tasks) = Cardinality(Range(state.completed_tasks))

\* a report task was completed already when the report stage was rejected
\* at the before gate; only the pending one was appended
C37_Witness ==
    /\ pc = "skipped"
    /\ Len(state.tasks) = 2
    /\ state.tasks[1].type = "report"
    /\ state.tasks[2].type = "report"
    /\ state.completed_tasks = <<1, 2>>
    /\ CountMsg(state.messages, "report_skipped") = 1

----------------------------------------------------------------------------
(* The end of run_research, and the router *)

\* C38: when the snapshot sequence ends without an exception, run_research
\* sets the stored state's status to 'complete' whatever the status of the
\* last snapshot, also when the sequence ended because max_iterations was
\* exhausted.
C38_FinalUpdateCompletes ==
    /\ [][(pc = "done" /\ svc = "running")
            => (svc' = "finished" /\ state'.status = "complete")]_vars
    /\ [](svc = "finished" => state.status = "complete")

\* the iteration budget was exhausted with the research unfinished, and the
\* stored state is 'complete' without a report
C38_Witness ==
    /\ svc = "finished"
    /\ end_reason = "max_iterations"
    /\ state.status = "complete"
    /\ state.report = <<>>

\* C39: task_router and _determine_next_agent are equivalent: for every
\* research state they choose the same stage name, task_router's 'complete'
\* corresponding exactly to _determine_next_agent's None.
C39_RouterEquivalence ==
    pc = "selected"
      => /\ route = "complete" <=> next_agent = "None"
         /\ route # "complete" => route = next_agent

\* both choose the report stage for a ready report task that stands behind
\* a report task with a dangling dependency
C39_Witness ==
    /\ pc = "selected"
    /\ route = "report_generation"
    /\ next_agent = "report_generation"
    /\ Len(state.tasks) = 2
    /\ state.tasks[1].type = "report"
    /\ state.tasks[1].depends_on = {DanglingId}
    /\ ~Completed(state, 1)
    /\ state.tasks[2].type = "report"

====
